---- MODULE Spec2Model ----
(***************************************************************************)
(* RayExecutor (python/ray/util/concurrent/futures/ray_executor.py): a     *)
(* concurrent.futures.Executor whose tasks run on a Ray cluster, either as *)
(* independent remote calls (max_workers=None) or on a fixed ActorPool.    *)
(*                                                                         *)
(* One caller thread issues submit / map / next(iterator) / shutdown; the  *)
(* backend (Ray) completes tasks and resolves Future objects concurrently. *)
(***************************************************************************)
EXTENDS Integers, Sequences, FiniteSets, TLC

\* ------------------------------------------------------------------ bounds
MaxSub == 3        \* submissions (submit calls, map's included) per run
MaxIters == 1      \* map calls per run
MaxWorkers == 2    \* largest max_workers tried
MaxTime == 2       \* last tick of the monotonic clock

\* ------------------------------------------------------------------ inputs
NoTimeout == -1    \* timeout=None

NoMaxWorkers == -99    \* max_workers=None

\* the max_workers arguments tried
WorkerArgs == {NoMaxWorkers} \cup (-1..MaxWorkers)

\* the threads that call submit at the same time
Threads == {1, 2}

Fns == {"mul", "div"}

\* fn(*args) as the interpreter evaluates it: a value, or the exception raised
Apply(fn, args) ==
    IF fn = "mul"
    THEN [kind |-> "value", val |-> args[1] * args[2]]
    ELSE IF args[2] = 0
         THEN [kind |-> "ZeroDivisionError", val |-> 0]
         ELSE [kind |-> "value", val |-> args[1] \div args[2]]

NoResult == [kind |-> "none", val |-> 0]

SubmitArgs == {<<6, 2>>}

\* the iterables handed to map, as <<xs, ys>>
MapInputs == { <<<<4, 6>>, <<2, 0, 5>>>>,
               <<<<5>>, <<>>>> }

Min(a, b) == IF a < b THEN a ELSE b

\* zip(*iterables): positional tuples, the shortest iterable bounds the count
Zip(xs, ys) == [i \in 1..Min(Len(xs), Len(ys)) |-> <<xs[i], ys[i]>>]

\* builtins.map over the zipped inputs
BuiltinMap(fn, xs, ys) == [i \in 1..Len(Zip(xs, ys)) |-> Apply(fn, Zip(xs, ys)[i])]

\* ------------------------------------------------------------------- state
VARIABLES
    max_workers,    \* the max_workers argument (NoMaxWorkers for None)
    shutdown_ray,   \* self._shutdown_ray
    shutdown_lock,  \* self._shutdown_lock
    futures,        \* self.futures: Future ids, in append order
    fut,            \* every Future created: [sub, oref, state, result]
    task,           \* every submission: [fn, args, st, actor]; its ObjectRef
                    \* exists once st # "queued"
    pool,           \* self._actor_pool (ray.util.ActorPool)
    ray_up,         \* ray is initialised (ray.init .. ray.shutdown)
    caller,         \* where the calling thread is
    iters,          \* the result iterators map has returned
    ret,            \* outcome of the caller's last completed call
    now,            \* time.monotonic()
    block,          \* the with-statement around the executor: "none", "in", "left"
    threads         \* further threads calling submit: where each one is

vars == <<max_workers, shutdown_ray, shutdown_lock, futures, fut, task, pool,
          ray_up, caller, iters, ret, now, block, threads>>

Idle == [op |-> "idle", it |-> 0, ref |-> 0, i |-> 0, wait |-> FALSE, cancel |-> FALSE,
         until |-> NoTimeout]

\* inside a blocking call that gives up once the clock reaches until
At(op, it, ref, until) ==
    [op |-> op, it |-> it, ref |-> ref, i |-> 0, wait |-> FALSE, cancel |-> FALSE,
     until |-> until]

Ret(op, res, h) == res

\* ------------------------------------------------- ray.util.ActorPool
\* ActorPool(actors): every actor idle, no task index handed out
ActorPool(k) ==
    [ idle_actors      |-> [a \in 1..k |-> a],
      future_to_actor  |-> << >>,
      index_to_future  |-> << >>,
      next_task_index  |-> 0,
      next_return_index |-> 0,
      pending_submits  |-> << >> ]

Restrict(f, S) == [x \in S |-> f[x]]

\* ActorPool.submit, the idle branch: actor = self._idle_actors.pop()
PoolTakeActor(p) == [p EXCEPT !.idle_actors = SubSeq(@, 1, Len(@) - 1)]

\* ActorPool.submit, the idle branch after fn(actor, value) has returned the
\* ObjectRef s: the entries under the next task index, and the index moves on
PoolRegister(p, s, a) ==
    [p EXCEPT
       !.future_to_actor = (s :> [index |-> p.next_task_index, actor |-> a]) @@ @,
       !.index_to_future = (p.next_task_index :> s) @@ @,
       !.next_task_index = @ + 1]

\* ActorPool.submit, no actor idle: self._pending_submits.append((fn, value))
PoolQueue(p, s) == [p EXCEPT !.pending_submits = Append(@, s)]

\* ActorPool.submit(fn, value), uninterrupted: run on an idle actor, else queue
PoolSubmit(p, s) ==
    IF p.idle_actors # << >>
    THEN PoolRegister(PoolTakeActor(p), s, p.idle_actors[Len(p.idle_actors)])
    ELSE PoolQueue(p, s)

\* ActorPool._return_actor(actor)
PoolReturnActor(p, a) ==
    LET q == [p EXCEPT !.idle_actors = Append(@, a)]
    IN IF q.pending_submits # << >>
       THEN PoolSubmit([q EXCEPT !.pending_submits = Tail(@)], Head(q.pending_submits))
       ELSE q

\* ActorPool.has_next()
PoolHasNext(p) == DOMAIN p.future_to_actor # {}

\* the ObjectRef ActorPool.get_next() hands out next: the one with the
\* lowest index not yet returned, whether or not later ones are ready
PoolNextRef(p) == p.index_to_future[p.next_return_index]

\* ActorPool.get_next(): the bookkeeping between the wait and ray.get, for
\* the ObjectRef o it hands out
PoolTakeNext(p, o) ==
    LET i == p.future_to_actor[o].index
        a == p.future_to_actor[o].actor
    IN PoolReturnActor(
         [p EXCEPT
            !.index_to_future = Restrict(@, DOMAIN @ \ {i}),
            !.next_return_index = @ + 1,
            !.future_to_actor = Restrict(@, DOMAIN @ \ {o})],
         a)

\* the tasks the pool has handed to an actor now hold an ObjectRef
Dispatch(t, p) ==
    [s \in DOMAIN t |->
        IF s \in DOMAIN p.future_to_actor /\ t[s].st = "queued"
        THEN [t[s] EXCEPT !.st = "dispatched", !.actor = p.future_to_actor[s].actor]
        ELSE t[s]]

\* ------------------------------------------------ concurrent.futures.Future
\* ObjectRef.future(): a new PENDING Future on that ObjectRef
NewFuture(s, o) == [sub |-> s, oref |-> o, state |-> "PENDING", result |-> NoResult]

\* a cancel that cancels in whatever state the future is
Cancel_any(f) == [f EXCEPT !.state = "CANCELLED"]

\* Future.cancel(): only a PENDING future is cancelled
Cancel(f) == IF f.state = "PENDING" THEN [f EXCEPT !.state = "CANCELLED"] ELSE f

Done(f) == f.state \in {"FINISHED", "CANCELLED"}

\* --------------------------------------------------------------- executor
Ex == [task |-> task, fut |-> fut, futures |-> futures, pool |-> pool,
       raised |-> "none"]

\* a lock check that never raises
check_shutdown_lock_never == FALSE

\* RayExecutor._check_shutdown_lock: TRUE when it raises RuntimeError
check_shutdown_lock == shutdown_lock

\* RayExecutor.submit, after the lock check
submit(e, fn, args) ==
    LET s == Len(e.task) + 1
        h == Len(e.fut) + 1
    IN IF max_workers > 0
       THEN LET p   == PoolSubmit(e.pool, s)
                t   == Dispatch(Append(e.task,
                          [fn |-> fn, args |-> args, st |-> "queued", actor |-> 0]), p)
                idx == p.next_task_index - 1
            IN IF idx \in DOMAIN p.index_to_future
               THEN [e EXCEPT !.task = t, !.pool = p,
                              !.fut = Append(@, NewFuture(s, p.index_to_future[idx])),
                              !.futures = Append(@, h)]
               ELSE [e EXCEPT !.task = t, !.pool = p, !.raised = "KeyError"]
       ELSE [e EXCEPT
               !.task = Append(@, [fn |-> fn, args |-> args, st |-> "dispatched",
                                   actor |-> 0]),
               !.fut = Append(@, NewFuture(s, s)),
               !.futures = Append(@, h)]

\* a constructor that also accepts max_workers=0
valid_max_workers_or_zero(mw) == mw >= 0

\* not (max_workers < 1)
valid_max_workers(mw) == ~(mw < 1)

\* a constructor that creates one actor too few
actors_one_short(mw) == mw - 1

\* [ExecutorActor.options().remote() for i in range(max_workers)]: how many
actors(mw) == mw

\* RayExecutor.__init__(max_workers=mw): the exception it raises, if any, and
\* self._actor_pool (a pool of no actors standing for None)
init(mw) ==
    IF mw # NoMaxWorkers
    THEN IF ~valid_max_workers(mw)
         THEN [raised |-> "ValueError", pool |-> ActorPool(0)]
         ELSE [raised |-> "none", pool |-> ActorPool(actors(mw))]
    ELSE [raised |-> "none", pool |-> ActorPool(0)]

\* a thread outside submit
ThreadIdle == [op |-> "idle", sub |-> 0, ref |-> 0, h |-> 0, actor |-> 0]

\* the state RayExecutor(max_workers, shutdown_ray) leaves behind: an
\* executor, or no executor and the exception raised; b says whether the
\* call is the head of a with-statement
Constructed(b) ==
    /\ max_workers \in WorkerArgs
    /\ shutdown_ray \in BOOLEAN
    /\ shutdown_lock = FALSE
    /\ futures = << >>
    /\ fut = << >>
    /\ task = << >>
    /\ pool = init(max_workers).pool
    /\ ray_up = (init(max_workers).raised = "none")
    /\ caller = IF init(max_workers).raised = "none" THEN Idle
                ELSE At("no_executor", 0, 0, NoTimeout)
    /\ iters = << >>
    /\ ret = IF init(max_workers).raised = "none" THEN Ret("init", "ok", 0)
             ELSE Ret("init", init(max_workers).raised, 0)
    /\ now = 0
    /\ block = IF b /\ init(max_workers).raised = "none" THEN "in" ELSE "none"
    /\ threads = [t \in Threads |-> ThreadIdle]

Init == Constructed(FALSE)

\* ex.submit(fn, *args)
Submit(fn, args) ==
    /\ caller.op = "idle"
    /\ Len(task) < MaxSub
    /\ IF check_shutdown_lock
       THEN /\ ret' = Ret("submit", "RuntimeError", 0)
            /\ UNCHANGED <<task, fut, futures, pool>>
       ELSE LET e == submit(Ex, fn, args)
            IN /\ task' = e.task
               /\ fut' = e.fut
               /\ futures' = e.futures
               /\ pool' = e.pool
               /\ ret' = IF e.raised = "none"
                         THEN Ret("submit", "ok", Len(e.fut))
                         ELSE Ret("submit", e.raised, 0)
    /\ UNCHANGED <<block, threads, max_workers, shutdown_ray, shutdown_lock, ray_up, caller, iters, now>>

\* thread t enters ex.submit(fn, *args): the lock check, then with a fixed
\* pool the head of ActorPool.submit, which takes an idle actor or queues the
\* call, and without a pool remote_fn.remote(...), which returns the
\* ObjectRef of the call
SubmitEnqueue(t, fn, args) ==
    /\ caller.op = "idle"
    /\ threads[t].op = "idle"
    /\ Len(task) < MaxSub
    /\ ~check_shutdown_lock
    /\ LET s == Len(task) + 1
       IN IF max_workers > 0
          THEN /\ task' = Append(task, [fn |-> fn, args |-> args, st |-> "queued",
                                        actor |-> 0])
               /\ IF pool.idle_actors # << >>
                  THEN /\ pool' = PoolTakeActor(pool)
                       /\ threads' = [threads EXCEPT ![t] =
                              [op |-> "taken", sub |-> s, ref |-> 0, h |-> 0,
                               actor |-> pool.idle_actors[Len(pool.idle_actors)]]]
                  ELSE /\ pool' = PoolQueue(pool, s)
                       /\ threads' = [threads EXCEPT ![t] =
                              [op |-> "submitted", sub |-> s, ref |-> 0, h |-> 0,
                               actor |-> 0]]
          ELSE /\ pool' = pool
               /\ task' = Append(task, [fn |-> fn, args |-> args, st |-> "dispatched",
                                        actor |-> 0])
               /\ threads' = [threads EXCEPT ![t] =
                      [op |-> "read", sub |-> s, ref |-> s, h |-> 0, actor |-> 0]]
    /\ UNCHANGED <<block, max_workers, shutdown_ray, shutdown_lock, futures, fut,
                   ray_up, caller, iters, ret, now>>

\* thread t inside ActorPool.submit: fn(actor, value), that is actor_fn's
\* a.actor_function.remote(partial(fn, *args, **kwargs)): the call is handed
\* to the actor it took
SubmitRemote(t) ==
    /\ threads[t].op = "taken"
    /\ task' = [task EXCEPT ![threads[t].sub].st = "dispatched",
                            ![threads[t].sub].actor = threads[t].actor]
    /\ threads' = [threads EXCEPT ![t].op = "remoted"]
    /\ UNCHANGED <<block, max_workers, shutdown_ray, shutdown_lock, futures, fut, pool,
                   ray_up, caller, iters, ret, now>>

\* thread t inside ActorPool.submit: the ObjectRef is entered under the next
\* task index
SubmitRegister(t) ==
    /\ threads[t].op = "remoted"
    /\ pool' = PoolRegister(pool, threads[t].sub, threads[t].actor)
    /\ threads' = [threads EXCEPT ![t].op = "submitted"]
    /\ UNCHANGED <<block, max_workers, shutdown_ray, shutdown_lock, futures, fut, task,
                   ray_up, caller, iters, ret, now>>

\* thread t in ex.submit, fixed pool: the read of
\* self._actor_pool._index_to_future[self._actor_pool._next_task_index - 1],
\* which raises KeyError when the pool holds no such index
SubmitRead(t) ==
    /\ threads[t].op = "submitted"
    /\ LET idx == pool.next_task_index - 1
       IN IF idx \in DOMAIN pool.index_to_future
          THEN threads' = [threads EXCEPT ![t].op = "read",
                                          ![t].ref = pool.index_to_future[idx]]
          ELSE threads' = [threads EXCEPT ![t] = ThreadIdle]
    /\ UNCHANGED <<block, max_workers, shutdown_ray, shutdown_lock, futures, fut, task,
                   pool, ray_up, caller, iters, ret, now>>

\* thread t in ex.submit: .future() on the ObjectRef it holds
SubmitFuture(t) ==
    /\ threads[t].op = "read"
    /\ fut' = Append(fut, NewFuture(threads[t].sub, threads[t].ref))
    /\ threads' = [threads EXCEPT ![t].op = "made", ![t].h = Len(fut) + 1]
    /\ UNCHANGED <<block, max_workers, shutdown_ray, shutdown_lock, futures, task, pool,
                   ray_up, caller, iters, ret, now>>

\* thread t in ex.submit: self.futures.append(future); return future
SubmitAppend(t) ==
    /\ threads[t].op = "made"
    /\ futures' = Append(futures, threads[t].h)
    /\ threads' = [threads EXCEPT ![t] = ThreadIdle]
    /\ UNCHANGED <<block, max_workers, shutdown_ray, shutdown_lock, fut, task, pool,
                   ray_up, caller, iters, ret, now>>

\* ------------------------------------------------------------ the backend
\* actors run their tasks one at a time, in dispatch order
ActorFree(s) ==
    \A s2 \in 1..(s - 1) :
        (task[s].actor # 0 /\ task[s2].actor = task[s].actor) => task[s2].st = "done"

\* Ray finishes running a task: its ObjectRef is ready
Complete(s) ==
    /\ ray_up
    /\ task[s].st = "dispatched"
    /\ ActorFree(s)
    /\ task' = [task EXCEPT ![s].st = "done"]
    /\ UNCHANGED <<block, threads, max_workers, shutdown_ray, shutdown_lock, futures, fut, pool,
                   ray_up, caller, iters, ret, now>>

\* the callback ObjectRef.future() registered: set_result / set_exception
SetFuture(h) ==
    /\ ray_up
    /\ fut[h].state \in {"PENDING", "RUNNING"}
    /\ task[fut[h].oref].st = "done"
    /\ fut' = [fut EXCEPT ![h].state = "FINISHED",
                          ![h].result = Apply(task[fut[h].oref].fn, task[fut[h].oref].args)]
    /\ UNCHANGED <<block, threads, max_workers, shutdown_ray, shutdown_lock, futures, task, pool,
                   ray_up, caller, iters, ret, now>>

\* Future.set_running_or_notify_cancel(): PENDING -> RUNNING; it looks at
\* nothing but the state of the Future
SetRunning(h) ==
    /\ fut[h].state = "PENDING"
    /\ fut' = [fut EXCEPT ![h].state = "RUNNING"]
    /\ UNCHANGED <<block, threads, max_workers, shutdown_ray, shutdown_lock, futures, task, pool,
                   ray_up, caller, iters, ret, now>>

\* --------------------------------------------------------------------- map
\* a map that leaves every submission to the first next()
SubmitAll_lazy(e, fn, argl) == e

RECURSIVE SubmitAll(_, _, _)
\* self.submit(fn, *args) for args in zip(*iterables), in order
SubmitAll(e, fn, argl) ==
    IF argl = << >> \/ e.raised # "none"
    THEN e
    ELSE SubmitAll(submit(e, fn, Head(argl)), fn, Tail(argl))

\* a generator that forgot fs.reverse()
Reverse_not(q) == q

\* fs.reverse()
Reverse(q) == [i \in 1..Len(q) |-> q[Len(q) + 1 - i]]

\* the result_iterator() generator object map returns
NewIterator(fn, its, timeout, hs) ==
    [ pooled   |-> max_workers > 0,
      fs       |-> IF max_workers > 0 THEN << >> ELSE hs,
      timeout  |-> timeout,
      end_time |-> IF timeout = NoTimeout THEN 0 ELSE timeout + now,
      st       |-> "created",
      out      |-> << >>,
      got      |-> << >>,
      err      |-> "none",
      fn       |-> fn,
      its      |-> its,
      hs       |-> hs ]

\* ex.map(fn, *iterables, timeout=timeout)
Map(fn, its, timeout) ==
    /\ caller.op = "idle"
    /\ Len(iters) < MaxIters
    /\ Len(task) + Len(Zip(its[1], its[2])) <= MaxSub
    /\ IF check_shutdown_lock
       THEN /\ ret' = Ret("map", "RuntimeError", 0)
            /\ UNCHANGED <<task, fut, futures, pool, iters>>
       ELSE LET e  == SubmitAll(Ex, fn, Zip(its[1], its[2]))
                hs == [k \in 1..(Len(e.fut) - Len(fut)) |-> Len(fut) + k]
            IN /\ task' = e.task
               /\ fut' = e.fut
               /\ futures' = e.futures
               /\ pool' = e.pool
               /\ IF e.raised = "none"
                  THEN /\ iters' = Append(iters, NewIterator(fn, its, timeout, hs))
                       /\ ret' = Ret("map", "ok", Len(iters) + 1)
                  ELSE /\ iters' = iters
                       /\ ret' = Ret("map", e.raised, 0)
    /\ UNCHANGED <<block, threads, max_workers, shutdown_ray, shutdown_lock, ray_up, caller, now>>

\* a cleanup that cancels nothing
CancelAll_none(f, hs) == f

\* for future in fs: future.cancel()
CancelAll(f, hs) ==
    [h \in DOMAIN f |-> IF \E k \in DOMAIN hs : hs[k] = h THEN Cancel(f[h]) ELSE f[h]]

\* a wait that is handed the whole timeout again
remaining_restarted(it) == it.timeout

\* end_time - time.monotonic()
remaining(it) == it.end_time - now

\* the clock value at which a wait begun now with the remaining time gives
\* up; none with timeout=None
WaitUntil(it) == IF it.timeout = NoTimeout THEN NoTimeout ELSE now + remaining(it)

\* the timeout of the caller's blocking call has elapsed
WaitOver == caller.until # NoTimeout /\ now >= caller.until

\* next(iterator), no pool: up to the call of Future.result
NextBegin(i) ==
    /\ caller.op = "idle"
    /\ ~iters[i].pooled
    /\ iters[i].st \in {"created", "suspended"}
    /\ LET it == iters[i]
           fs == IF it.st = "created" THEN Reverse(it.fs) ELSE it.fs
       IN IF fs = << >>
          THEN /\ iters' = [iters EXCEPT ![i].st = "finished", ![i].fs = fs]
               /\ caller' = caller
               /\ ret' = ret
          ELSE /\ iters' = [iters EXCEPT ![i].st = "running",
                                         ![i].fs = SubSeq(fs, 1, Len(fs) - 1)]
               /\ caller' = At("result", i, fs[Len(fs)], WaitUntil(it))
               /\ ret' = ret
    /\ UNCHANGED <<block, threads, max_workers, shutdown_ray, shutdown_lock, futures, fut, task, pool,
                   ray_up, now>>

\* next(iterator), no pool: Future.result returns or raises; when it returns
\* or raises what the Future holds, the finally clauses of _result_or_cancel
\* and of the generator follow at once (the Future is resolved, nothing can
\* change it); when it raises TimeoutError the Future is still unresolved
NextReturn(i) ==
    /\ caller.op = "result"
    /\ caller.it = i
    /\ LET it == iters[i]
           h  == caller.ref
           f  == fut[h]
       IN \/ /\ f.state = "FINISHED"
             /\ f.result.kind = "value"
             /\ iters' = [iters EXCEPT ![i].st = "suspended",
                                       ![i].out = Append(@, f.result),
                                       ![i].got = Append(@, f.oref)]
             /\ fut' = fut
             /\ ret' = ret
             /\ caller' = Idle
          \/ /\ Done(f)
             /\ ~(f.state = "FINISHED" /\ f.result.kind = "value")
             /\ iters' = [iters EXCEPT
                            ![i].st = "finished",
                            ![i].err = IF f.state = "CANCELLED" THEN "CancelledError"
                                       ELSE f.result.kind]
             /\ fut' = CancelAll(fut, it.fs)
             /\ ret' = ret
             /\ caller' = Idle
          \/ /\ ~Done(f)
             /\ WaitOver
             /\ iters' = iters
             /\ fut' = fut
             /\ ret' = ret
             /\ caller' = [caller EXCEPT !.op = "result_timeout"]
    /\ UNCHANGED <<block, threads, max_workers, shutdown_ray, shutdown_lock, futures, task, pool,
                   ray_up, now>>

\* next(iterator), no pool, after fut.result(timeout) has raised TimeoutError:
\* fut.cancel() in the finally clause of _result_or_cancel, then the finally
\* clause of the generator; the Future may have been resolved in between
NextCancel(i) ==
    /\ caller.op = "result_timeout"
    /\ caller.it = i
    /\ iters' = [iters EXCEPT ![i].st = "finished", ![i].err = "TimeoutError"]
    /\ fut' = CancelAll(fut, Append(iters[i].fs, caller.ref))
    /\ caller' = Idle
    /\ UNCHANGED <<block, threads, max_workers, shutdown_ray, shutdown_lock, futures, task, pool,
                   ray_up, ret, now>>

\* the consumer drops the sequence: generator.close(). On a generator
\* suspended at a yield it raises GeneratorExit there, which runs the finally
\* clause; a generator that never started is closed without running any of
\* its body
Close(i) ==
    /\ caller.op = "idle"
    /\ iters[i].st \in {"created", "suspended"}
    /\ iters' = [iters EXCEPT ![i].st = "closed"]
    /\ fut' = IF iters[i].pooled \/ iters[i].st = "created"
              THEN fut
              ELSE CancelAll(fut, iters[i].fs)
    /\ UNCHANGED <<block, threads, max_workers, shutdown_ray, shutdown_lock, futures, task, pool,
                   ray_up, caller, ret, now>>

\* a result_iterator that asked the pool for its newest task instead
get_next_newest(p) ==
    p.index_to_future[CHOOSE x \in DOMAIN p.index_to_future :
                          \A y \in DOMAIN p.index_to_future : y <= x]

\* self._actor_pool.get_next(timeout=...): the ObjectRef whose result the
\* generator yields next
get_next(p) == PoolNextRef(p)

\* next(iterator), fixed pool: up to the blocking call inside get_next
PoolNextBegin(i) ==
    /\ caller.op = "idle"
    /\ iters[i].pooled
    /\ iters[i].st \in {"created", "suspended"}
    /\ LET it == iters[i]
       IN IF ~PoolHasNext(pool)
          THEN /\ iters' = [iters EXCEPT ![i].st = "finished"]
               /\ ret' = ret
               /\ UNCHANGED <<pool, task, caller>>
          ELSE IF it.timeout = NoTimeout
          THEN /\ iters' = [iters EXCEPT ![i].st = "running"]
               /\ pool' = PoolTakeNext(pool, get_next(pool))
               /\ task' = Dispatch(task, pool')
               /\ caller' = At("ray_get", i, get_next(pool), NoTimeout)
               /\ ret' = ret
          ELSE IF remaining(it) < 0
          THEN /\ iters' = [iters EXCEPT ![i].st = "finished", ![i].err = "ValueError"]
               /\ ret' = ret
               /\ UNCHANGED <<pool, task, caller>>
          ELSE /\ iters' = [iters EXCEPT ![i].st = "running"]
               /\ caller' = At("ray_wait", i, get_next(pool), WaitUntil(it))
               /\ ret' = ret
               /\ UNCHANGED <<pool, task>>
    /\ UNCHANGED <<block, threads, max_workers, shutdown_ray, shutdown_lock, futures, fut, ray_up, now>>

\* the generator after ray.get(o) has returned r or raised
Yielded(its, i, o, r) ==
    IF r.kind = "value"
    THEN [its EXCEPT ![i].st = "suspended", ![i].out = Append(@, r),
                     ![i].got = Append(@, o)]
    ELSE [its EXCEPT ![i].st = "finished", ![i].err = r.kind]

\* next(iterator), fixed pool: get_next returns or raises
PoolNextReturn(i) ==
    /\ caller.op \in {"ray_get", "ray_wait"}
    /\ caller.it = i
    /\ LET it == iters[i]
           o  == caller.ref
           r  == Apply(task[o].fn, task[o].args)
       IN \/ /\ ray_up
             /\ task[o].st = "done"
             /\ iters' = Yielded(iters, i, o, r)
             /\ pool' = IF caller.op = "ray_wait" THEN PoolTakeNext(pool, o) ELSE pool
             /\ task' = Dispatch(task, pool')
             /\ ret' = ret
          \/ /\ ray_up
             /\ caller.op = "ray_wait"
             /\ task[o].st # "done"
             /\ WaitOver
             /\ iters' = [iters EXCEPT ![i].st = "finished", ![i].err = "TimeoutError"]
             /\ ret' = ret
             /\ UNCHANGED <<pool, task>>
          \/ /\ ~ray_up
             /\ iters' = [iters EXCEPT ![i].st = "finished", ![i].err = "RaySystemError"]
             /\ ret' = ret
             /\ UNCHANGED <<pool, task>>
    /\ caller' = Idle
    /\ UNCHANGED <<block, threads, max_workers, shutdown_ray, shutdown_lock, futures, fut, ray_up, now>>

\* ---------------------------------------------------------------- shutdown
\* a shutdown that takes the destroying branch whatever the flag says
destroys_always == TRUE

\* if self._shutdown_ray:
destroys_backend == shutdown_ray

\* a shutdown that cancels the outstanding handles before it drops them
shutdown_cancelling(wait, cancel_futures) ==
    /\ caller.op = "idle"
    /\ futures' = << >>
    /\ fut' = CancelAll(fut, futures)
    /\ ret' = Ret("shutdown", "ok", 0)
    /\ UNCHANGED <<shutdown_lock, caller, threads, max_workers, shutdown_ray, task,
                   pool, ray_up, iters, now>>

\* shutdown(wait, cancel_futures=cancel_futures), up to the first loop
shutdown(wait, cancel_futures) ==
    /\ caller.op = "idle"
    /\ IF destroys_backend
       THEN /\ shutdown_lock' = TRUE
            /\ caller' = [op |-> IF cancel_futures THEN "cancel"
                                 ELSE IF wait THEN "wait" ELSE "ray_shutdown",
                          it |-> 0, ref |-> 0, i |-> 1, wait |-> wait,
                          cancel |-> cancel_futures, until |-> NoTimeout]
            /\ UNCHANGED <<futures, ret>>
       ELSE /\ futures' = << >>
            /\ ret' = Ret("shutdown", "ok", 0)
            /\ UNCHANGED <<shutdown_lock, caller>>
    /\ UNCHANGED <<threads, max_workers, shutdown_ray, fut, task, pool, ray_up, iters, now>>

\* ex.shutdown(wait, cancel_futures=cancel_futures) called by the user
Shutdown(wait, cancel_futures) ==
    /\ shutdown(wait, cancel_futures)
    /\ UNCHANGED block

\* the ways control leaves a with-block
ExitPaths == {"normal", "exception", "early"}

\* an __exit__ that only returns
Exit_only_returns(exc) ==
    /\ block = "in"
    /\ caller.op = "idle"
    /\ block' = "left"
    /\ UNCHANGED <<shutdown_lock, caller, futures, ret, threads, max_workers,
                   shutdown_ray, fut, task, pool, ray_up, iters, now>>

\* control leaves the with-block: Executor.__exit__, which RayExecutor
\* inherits, calls self.shutdown(wait=True) whatever exc is
Exit(exc) ==
    /\ block = "in"
    /\ block' = "left"
    /\ shutdown(TRUE, FALSE)

\* a cancel loop that cancels nothing
ShutdownCancel_skip ==
    /\ caller.op = "cancel"
    /\ caller' = [caller EXCEPT !.op = IF caller.wait THEN "wait" ELSE "ray_shutdown",
                                !.i = 1]
    /\ UNCHANGED <<block, threads, max_workers, shutdown_ray, shutdown_lock, futures, fut, task, pool,
                   ray_up, iters, ret, now>>

\* for future in self.futures: future.cancel()
ShutdownCancel ==
    /\ caller.op = "cancel"
    /\ IF caller.i <= Len(futures)
       THEN /\ fut' = [fut EXCEPT ![futures[caller.i]] = Cancel(@)]
            /\ caller' = [caller EXCEPT !.i = @ + 1]
       ELSE /\ fut' = fut
            /\ caller' = [caller EXCEPT !.op = IF caller.wait THEN "wait" ELSE "ray_shutdown",
                                        !.i = 1]
    /\ UNCHANGED <<block, threads, max_workers, shutdown_ray, shutdown_lock, futures, task, pool,
                   ray_up, iters, ret, now>>

\* for future in self.futures: if future.running(): future.result()
ShutdownWait ==
    /\ caller.op = "wait"
    /\ IF caller.i <= Len(futures)
       THEN IF fut[futures[caller.i]].state = "RUNNING"
            THEN caller' = [caller EXCEPT !.op = "wait_result"]
            ELSE caller' = [caller EXCEPT !.i = @ + 1]
       ELSE caller' = [caller EXCEPT !.op = "ray_shutdown", !.i = 1]
    /\ UNCHANGED <<block, threads, max_workers, shutdown_ray, shutdown_lock, futures, fut, task, pool,
                   ray_up, iters, ret, now>>

\* future.result() inside shutdown returns once the future is resolved, or
\* raises the task's exception out of shutdown
ShutdownResult ==
    /\ caller.op = "wait_result"
    /\ Done(fut[futures[caller.i]])
    /\ LET f == fut[futures[caller.i]]
       IN IF f.state = "FINISHED" /\ f.result.kind = "value"
          THEN /\ caller' = [caller EXCEPT !.op = "wait", !.i = @ + 1]
               /\ ret' = ret
          ELSE /\ caller' = Idle
               /\ ret' = Ret("shutdown", IF f.state = "CANCELLED" THEN "CancelledError"
                                         ELSE f.result.kind, 0)
    /\ UNCHANGED <<block, threads, max_workers, shutdown_ray, shutdown_lock, futures, fut, task, pool,
                   ray_up, iters, now>>

\* a teardown that fails when ray is no longer initialised
ShutdownRay_strict ==
    /\ caller.op = "ray_shutdown"
    /\ ray_up' = FALSE
    /\ futures' = IF ray_up THEN << >> ELSE futures
    /\ caller' = Idle
    /\ ret' = IF ray_up THEN Ret("shutdown", "ok", 0) ELSE Ret("shutdown", "RuntimeError", 0)
    /\ UNCHANGED <<block, threads, max_workers, shutdown_ray, shutdown_lock, fut, task, pool, iters, now>>

\* ray.shutdown(); del self.futures; self.futures = []
ShutdownRay ==
    /\ caller.op = "ray_shutdown"
    /\ ray_up' = FALSE
    /\ futures' = << >>
    /\ caller' = Idle
    /\ ret' = Ret("shutdown", "ok", 0)
    /\ UNCHANGED <<block, threads, max_workers, shutdown_ray, shutdown_lock, fut, task, pool, iters, now>>

\* ------------------------------------------------------------------- clock
\* time.monotonic() advances, whoever reads it
Tick ==
    /\ now < MaxTime
    /\ now' = now + 1
    /\ UNCHANGED <<block, threads, max_workers, shutdown_ray, shutdown_lock, futures, fut, task, pool,
                   ray_up, caller, iters, ret>>

Timeouts == {NoTimeout, 1}

Next ==
    \/ \E fn \in Fns, args \in SubmitArgs : Submit(fn, args)
    \/ \E fn \in Fns, its \in MapInputs : Map(fn, its, NoTimeout)
    \/ \E i \in DOMAIN iters : NextBegin(i)
    \/ \E i \in DOMAIN iters : NextReturn(i)
    \/ \E i \in DOMAIN iters : PoolNextBegin(i)
    \/ \E i \in DOMAIN iters : PoolNextReturn(i)
    \/ \E i \in DOMAIN iters : Close(i)
    \/ \E w \in BOOLEAN, c \in BOOLEAN : Shutdown(w, c)
    \/ ShutdownCancel
    \/ ShutdownWait
    \/ ShutdownResult
    \/ ShutdownRay
    \/ \E s \in DOMAIN task : Complete(s)
    \/ \E h \in DOMAIN fut : SetFuture(h)
    \/ \E h \in DOMAIN fut : SetRunning(h)

Spec == Init /\ [][Next]_vars

\* the executor used with a timeout on map, the clock running
NextTimed ==
    \/ \E fn \in Fns, args \in SubmitArgs : Submit(fn, args)
    \/ \E fn \in Fns, its \in MapInputs, t \in Timeouts : Map(fn, its, t)
    \/ \E i \in DOMAIN iters : NextBegin(i)
    \/ \E i \in DOMAIN iters : NextReturn(i)
    \/ \E i \in DOMAIN iters : NextCancel(i)
    \/ \E i \in DOMAIN iters : PoolNextBegin(i)
    \/ \E i \in DOMAIN iters : PoolNextReturn(i)
    \/ \E i \in DOMAIN iters : Close(i)
    \/ \E s \in DOMAIN task : Complete(s)
    \/ \E h \in DOMAIN fut : SetFuture(h)
    \/ \E h \in DOMAIN fut : SetRunning(h)
    \/ Tick

SpecTimed == Init /\ [][NextTimed]_vars

\* equal tasks handed to map, as <<xs, ys>>
PoolMapInputs == { <<<<1, 2, 3>>, <<1, 1, 1>>>>,
                   <<<<1, 2>>, <<1, 1>>>> }

\* the executor mapping equal tasks over its pool
NextPool ==
    \/ \E fn \in Fns, args \in SubmitArgs : Submit(fn, args)
    \/ \E its \in PoolMapInputs : Map("mul", its, NoTimeout)
    \/ \E i \in DOMAIN iters : PoolNextBegin(i)
    \/ \E i \in DOMAIN iters : PoolNextReturn(i)
    \/ \E s \in DOMAIN task : Complete(s)

SpecPool == Init /\ [][NextPool]_vars

\* the executor with several threads inside submit at once
NextThreads ==
    \/ \E t \in Threads, fn \in Fns, args \in SubmitArgs : SubmitEnqueue(t, fn, args)
    \/ \E t \in Threads : SubmitRemote(t)
    \/ \E t \in Threads : SubmitRegister(t)
    \/ \E t \in Threads : SubmitRead(t)
    \/ \E t \in Threads : SubmitFuture(t)
    \/ \E t \in Threads : SubmitAppend(t)
    \/ \E s \in DOMAIN task : Complete(s)
    \/ \E h \in DOMAIN fut : SetFuture(h)

SpecThreads == Init /\ [][NextThreads]_vars

\* the executor constructed at the head of a with-statement
NextWith ==
    \/ \E fn \in Fns, args \in SubmitArgs : Submit(fn, args)
    \/ \E fn \in Fns, its \in MapInputs : Map(fn, its, NoTimeout)
    \/ \E i \in DOMAIN iters : NextBegin(i)
    \/ \E i \in DOMAIN iters : NextReturn(i)
    \/ \E i \in DOMAIN iters : PoolNextBegin(i)
    \/ \E i \in DOMAIN iters : PoolNextReturn(i)
    \/ \E i \in DOMAIN iters : Close(i)
    \/ \E exc \in ExitPaths : Exit(exc)
    \/ ShutdownWait
    \/ ShutdownResult
    \/ ShutdownRay
    \/ \E s \in DOMAIN task : Complete(s)
    \/ \E h \in DOMAIN fut : SetFuture(h)
    \/ \E h \in DOMAIN fut : SetRunning(h)

SpecWith == Constructed(TRUE) /\ [][NextWith]_vars

\* ------------------------------------------------------------------ claims
\* the value fn(*args) of submission s
Own(s) == Apply(task[s].fn, task[s].args)

\* C1 (as claimed): the handle a submit returns is the handle of that very
\* submission: once resolved, with fn terminating normally, its result() is
\* fn(*args), in both configurations and also when every worker is busy
C1_ResultIsOwn ==
    \A h \in DOMAIN fut :
        (fut[h].state = "FINISHED" /\ Own(fut[h].sub).kind = "value")
            => fut[h].result = Own(fut[h].sub)

\* C2 (as claimed): every handle a submit returned resolves to the outcome
\* of its own fn(args), the value returned or the exception raised
C2_ResolvesToOwnOutcome ==
    \A h \in DOMAIN fut :
        fut[h].state = "FINISHED" => fut[h].result = Own(fut[h].sub)

SubmitCall == \E fn \in Fns, args \in SubmitArgs : Submit(fn, args)

MapCall == \E fn \in Fns, its \in MapInputs : Map(fn, its, NoTimeout)

\* C3: once a destroying shutdown has been called the shutdown flag stays
\* set, and every later submit and map raises RuntimeError without creating
\* a handle, dispatching work or touching the outstanding list
C3_NoSubmitAfterShutdown ==
    [][ /\ shutdown_lock => shutdown_lock'
        /\ (shutdown_lock /\ (SubmitCall \/ MapCall))
              => /\ ret' = "RuntimeError"
                 /\ UNCHANGED <<futures, fut, task, pool, iters>> ]_vars

C3_Witness ==
    /\ shutdown_lock
    /\ ~ray_up
    /\ caller.op = "idle"
    /\ ret = "RuntimeError"
    /\ Len(fut) > 0

\* C4: with the destroy-backend flag false, shutdown(wait, cancel_futures)
\* only empties the outstanding list: the flag stays false, no handle changes
\* state, ray stays up, and a later submit succeeds with a new handle
C4_NonDestroyingShutdown ==
    [][ ~shutdown_ray =>
          /\ (\E w \in BOOLEAN, c \in BOOLEAN : Shutdown(w, c))
                => /\ futures' = << >>
                   /\ caller' = Idle
                   /\ ret' = "ok"
                   /\ UNCHANGED <<shutdown_lock, fut, task, pool, ray_up, iters>>
          /\ ~shutdown_lock' /\ ray_up'
          /\ SubmitCall
                => /\ ret' = "ok"
                   /\ Len(fut') = Len(fut) + 1
                   /\ fut'[Len(fut')].state = "PENDING"
                   /\ futures' = Append(futures, Len(fut')) ]_vars

\* a handle issued after a non-destroying shutdown has resolved, while one
\* issued before it was dropped from the outstanding list
C4_Witness ==
    /\ ~shutdown_ray
    /\ Len(fut) >= 2
    /\ futures = <<Len(fut)>>
    /\ fut[Len(fut)].state = "FINISHED"
    /\ fut[Len(fut)].result = Own(fut[Len(fut)].sub)

Terminal == {"FINISHED", "CANCELLED"}

\* C5: during shutdown(wait=True, cancel_futures=True) with the
\* destroy-backend flag true, the cancel loop turns each handle it reaches
\* from PENDING to CANCELLED and leaves the others alone, a RUNNING handle
\* is never cancelled, and when shutdown tears down and returns every
\* outstanding handle is CANCELLED or FINISHED
C5_CancelPendingShutdown ==
    [][ (caller.cancel /\ caller.wait) =>
          /\ (ShutdownCancel /\ caller.i <= Len(futures))
                => LET h == futures[caller.i]
                   IN /\ fut'[h].state = IF fut[h].state = "PENDING" THEN "CANCELLED"
                                         ELSE fut[h].state
                      /\ \A g \in DOMAIN fut \ {h} : fut'[g] = fut[g]
          /\ \A k \in DOMAIN futures :
                /\ fut[futures[k]].state = "RUNNING"
                      => fut'[futures[k]].state \in {"RUNNING", "FINISHED"}
                /\ fut[futures[k]].state \in Terminal
                      => fut'[futures[k]] = fut[futures[k]]
          /\ ShutdownRay
                => \A k \in DOMAIN futures : fut'[futures[k]].state \in Terminal ]_vars

\* shutdown is about to tear down after cancelling one handle and waiting
\* for another
C5_Witness ==
    /\ caller.op = "ray_shutdown"
    /\ caller.cancel /\ caller.wait
    /\ \E k \in DOMAIN futures : fut[futures[k]].state = "CANCELLED"
    /\ \E k \in DOMAIN futures : fut[futures[k]].state = "FINISHED"

\* C6 (as claimed): shutdown(wait=True) reaches ray.shutdown() only when no
\* outstanding handle is RUNNING, also when the backend starts handles
\* while shutdown runs
C6_NoRunningAtTeardown ==
    (caller.op = "ray_shutdown" /\ caller.wait)
        => \A k \in DOMAIN futures : fut[futures[k]].state # "RUNNING"

ShutdownStep ==
    \/ \E w \in BOOLEAN, c \in BOOLEAN : Shutdown(w, c)
    \/ ShutdownCancel
    \/ ShutdownWait
    \/ ShutdownResult
    \/ ShutdownRay

\* the executor as a shutdown call that returned leaves it
ShutDown ==
    /\ futures = << >>
    /\ shutdown_ray => (shutdown_lock /\ ~ray_up)

\* C7: on an executor a shutdown call has returned from, a further shutdown
\* call raises nothing and changes nothing: same flag, empty outstanding
\* list, same handle states, no failure on the second teardown
C7_ShutdownIdempotent ==
    [][ (ShutDown /\ ShutdownStep)
          => /\ UNCHANGED <<shutdown_lock, futures, fut, task, pool, ray_up, iters>>
             /\ ret' = IF caller'.op = "idle" THEN "ok" ELSE ret ]_vars

\* a second destroying shutdown has reached ray.shutdown() again
C7_Witness ==
    /\ shutdown_ray
    /\ ~ray_up
    /\ caller.op = "ray_shutdown"
    /\ Len(fut) > 0

IsPrefix(a, b) == Len(a) <= Len(b) /\ \A k \in 1..Len(a) : a[k] = b[k]

\* what builtins.map yields for the inputs of iterator i, element by element
Expected(i) == BuiltinMap(iters[i].fn, iters[i].its[1], iters[i].its[2])

\* the results iterator i has produced are those of builtins.map, in input
\* order: all of them once it is exhausted, up to the first failing element
\* when fn raised
LikeBuiltinMap(i) ==
    /\ IsPrefix(iters[i].out, Expected(i))
    /\ (iters[i].st = "finished" /\ iters[i].err = "none")
          => iters[i].out = Expected(i)
    /\ iters[i].err = "ZeroDivisionError"
          => /\ Len(iters[i].out) < Len(Expected(i))
             /\ Expected(i)[Len(iters[i].out) + 1].kind = "ZeroDivisionError"

\* C8: with no fixed pool, consuming map(fn, *iterables) yields the results
\* of builtins.map over the zipped inputs, in input order, whatever order
\* the backend completes the tasks in
C8_NoPoolMapInOrder ==
    \A i \in DOMAIN iters : ~iters[i].pooled => LikeBuiltinMap(i)

C8_Witness ==
    \E i \in DOMAIN iters :
        /\ ~iters[i].pooled
        /\ iters[i].st = "finished"
        /\ iters[i].err = "none"
        /\ Len(iters[i].out) = 2
        /\ iters[i].out[1] # iters[i].out[2]

\* the map call of iterator i is the executor's only map call and made its
\* only submissions
Alone(i) == Len(task) = Len(iters[i].hs) /\ Len(iters) = 1

\* C9: on an executor with a fixed pool of any size, used for that one map
\* call only, consuming map yields the same sequence as with no fixed pool:
\* the results of builtins.map in input order
C9_PoolMapSameAsNoPool ==
    \A i \in DOMAIN iters : (iters[i].pooled /\ Alone(i)) => LikeBuiltinMap(i)

\* a pool of one worker has served a map over two inputs
C9_Witness ==
    \E i \in DOMAIN iters :
        /\ iters[i].pooled
        /\ max_workers = 1
        /\ Alone(i)
        /\ iters[i].st = "finished"
        /\ iters[i].err = "none"
        /\ Len(iters[i].out) = 2
        /\ iters[i].out[1] # iters[i].out[2]

InGetNext == caller.op \in {"ray_get", "ray_wait"}

\* C10 (as claimed): with a fixed pool, a step of the result sequence blocks
\* only until some outstanding task has completed, and yields that one
C10_CompletionOrder ==
    (InGetNext /\ ray_up /\ task[caller.ref].st # "done")
        => \A o \in DOMAIN pool.future_to_actor : task[o].st # "done"

\* C10 (amended): with a fixed pool, the result sequence is in task-index
\* (submission) order: each step waits for the outstanding task submitted
\* first, and a sequence yields its tasks in the order they were submitted
C10_SubmissionOrder ==
    /\ InGetNext => \A o \in DOMAIN pool.future_to_actor : o >= caller.ref
    /\ \A i \in DOMAIN iters :
          iters[i].pooled =>
              \A k \in 1..(Len(iters[i].got) - 1) :
                  iters[i].got[k + 1] > iters[i].got[k]

\* the sequence waits for the first submission although a later one is done
C10_Witness ==
    /\ InGetNext
    /\ ray_up
    /\ task[caller.ref].st # "done"
    /\ \E o \in DOMAIN pool.future_to_actor : o > caller.ref /\ task[o].st = "done"
    /\ \E i \in DOMAIN iters : Len(iters[i].got) > 0

\* a step of the caller inside a result sequence
IterStep ==
    \E i \in DOMAIN iters :
        NextBegin(i) \/ NextReturn(i) \/ PoolNextBegin(i) \/ PoolNextReturn(i)

\* C11: every submit call of a map call is made inside the map call, one per
\* zipped input tuple and in the order of the tuples, so the sequence map
\* returns has produced nothing yet while all its tasks exist; consuming the
\* sequence submits nothing, in both configurations
C11_MapSubmitsEagerly ==
    [][ /\ \A fn \in Fns, its \in MapInputs :
              (Map(fn, its, NoTimeout) /\ ret' = "ok") =>
                  LET z == Zip(its[1], its[2])
                      n == iters'[Len(iters')]
                  IN /\ Len(task') = Len(task) + Len(z)
                     /\ \A k \in 1..Len(task) : task'[k].fn = task[k].fn
                                                  /\ task'[k].args = task[k].args
                     /\ \A k \in 1..Len(z) : /\ task'[Len(task) + k].fn = fn
                                              /\ task'[Len(task) + k].args = z[k]
                     /\ Len(iters') = Len(iters) + 1
                     /\ n.st = "created" /\ n.out = << >>
                     /\ Len(n.hs) = Len(z)
                     /\ \A k \in 1..Len(z) : fut'[n.hs[k]].sub = Len(task) + k
        /\ IterStep => Len(task') = Len(task) /\ Len(fut') = Len(fut) ]_vars

\* the backend has finished a task of a map call whose sequence nobody has
\* touched
C11_Witness ==
    \E i \in DOMAIN iters :
        /\ iters[i].st = "created"
        /\ Len(iters[i].hs) = 2
        /\ task[fut[iters[i].hs[2]].sub].args = <<6, 0>>
        /\ task[fut[iters[i].hs[1]].sub].st = "done"

\* the submissions made by the map call that returned iterator i
OwnTasks(i) == {fut[iters[i].hs[k]].sub : k \in DOMAIN iters[i].hs}

\* C12 (as claimed): a result sequence yields results of its own map call's
\* tasks only, and once exhausted has yielded one result per zipped input
\* tuple, whatever was submitted to the executor before
C12_YieldsExactlyOwn ==
    \A i \in DOMAIN iters :
        /\ \A k \in DOMAIN iters[i].got : iters[i].got[k] \in OwnTasks(i)
        /\ (iters[i].st = "finished" /\ iters[i].err = "none")
              => Len(iters[i].out) = Len(Zip(iters[i].its[1], iters[i].its[2]))

\* C13 (as claimed): a result sequence of map(fn, xs, timeout=t) that stops
\* for want of a completed task stops with the Timeout error kind in both
\* configurations, also when the deadline has passed before the next element
\* is requested: its only failures are Timeout and the task's own exception
C13_TimeoutKind ==
    \A i \in DOMAIN iters :
        iters[i].timeout # NoTimeout
            => iters[i].err \in {"none", "TimeoutError", "ZeroDivisionError"}

\* C16: RayExecutor(max_workers=n) with n given and below 1 raises ValueError
\* and leaves no executor, no pool and no actor; with n >= 1 it returns an
\* executor whose pool has n actors, and with max_workers omitted an
\* executor without a pool
C16_WorkerCountValidated ==
    /\ (max_workers # NoMaxWorkers /\ max_workers < 1)
          => /\ caller.op = "no_executor"
             /\ ret = "ValueError"
             /\ pool = ActorPool(0)
             /\ task = << >> /\ fut = << >>
    /\ max_workers >= 1
          => /\ caller.op # "no_executor"
             /\ Len(pool.idle_actors) + Cardinality(DOMAIN pool.future_to_actor)
                   = max_workers
    /\ max_workers = NoMaxWorkers
          => /\ caller.op # "no_executor"
             /\ pool = ActorPool(0)

\* the constructor has rejected max_workers=0
C16_Witness ==
    /\ max_workers = 0
    /\ ret = "ValueError"
    /\ caller.op = "no_executor"

\* C14: whichever way control leaves the with-block, the step that leaves it
\* is a call of shutdown(wait=True); so with the destroy-backend flag true
\* the shutdown flag is set whenever control has left the block
C14_ExitCallsShutdown ==
    [][ /\ (block = "in" /\ block' # "in")
              => /\ block' = "left"
                 /\ IF shutdown_ray
                    THEN /\ shutdown_lock'
                         /\ caller'.op = "wait"
                         /\ caller'.wait /\ ~caller'.cancel
                    ELSE /\ futures' = << >>
                         /\ ret' = "ok"
        /\ (block' = "left" /\ shutdown_ray') => shutdown_lock'
        /\ block = "left" => block' = "left" ]_vars

\* control has left a block in which work was submitted, and the shutdown
\* called on the way out has torn the backend down
C14_Witness ==
    /\ block = "left"
    /\ shutdown_ray /\ shutdown_lock
    /\ ~ray_up
    /\ caller.op = "idle"
    /\ Len(fut) > 0

\* a shutdown call has returned since map handed out iterator i: its handles
\* have left the outstanding list
ShutSince(i) ==
    /\ iters[i].hs # << >>
    /\ \A k \in DOMAIN iters[i].hs, j \in DOMAIN futures : futures[j] # iters[i].hs[k]

\* C15: a result sequence obtained before a shutdown that left the backend
\* up yields after it what it would have yielded without it: the results of
\* builtins.map in input order, every one of them once it is exhausted, and
\* no failure other than fn's own; with and without a fixed pool (the pool
\* serving that one map call)
C15_ReadableAfterShutdown ==
    \A i \in DOMAIN iters :
        (ShutSince(i) /\ ray_up /\ (iters[i].pooled => Alone(i)))
            => /\ LikeBuiltinMap(i)
               /\ iters[i].err \in {"none", "ZeroDivisionError"}

\* shutdown has returned before the first element of a sequence of two is
\* asked for, and the caller is now waiting for that element
C15_Witness ==
    \E i \in DOMAIN iters :
        /\ ShutSince(i)
        /\ ray_up
        /\ caller.op \in {"result", "ray_get"}
        /\ caller.it = i
        /\ iters[i].out = << >>
        /\ Len(iters[i].hs) = 2
        /\ task[caller.ref].st # "done"

\* C17: the deadline of map(..., timeout=t) is the clock at the map call plus
\* t and is never computed again; every wait of the sequence, for whichever
\* element, gives up at that deadline, so a Timeout is raised only once the
\* clock has reached it; and without a pool a handle that is already
\* finished is yielded, whatever the clock says
C17_TotalBudget ==
    [][ /\ \A fn \in Fns, its \in MapInputs, t \in Timeouts \ {NoTimeout} :
              (Map(fn, its, t) /\ ret' = "ok")
                  => iters'[Len(iters')].end_time = now + t
        /\ \A i \in DOMAIN iters :
              /\ iters'[i].end_time = iters[i].end_time
              /\ ( /\ iters[i].timeout # NoTimeout
                   /\ NextBegin(i) \/ PoolNextBegin(i)
                   /\ caller'.op # "idle" )
                    => caller'.until = iters[i].end_time
              /\ (iters[i].err = "none" /\ iters'[i].err = "TimeoutError")
                    => /\ iters[i].timeout # NoTimeout
                       /\ now >= iters[i].end_time
              /\ ( /\ NextReturn(i)
                   /\ fut[caller.ref].state = "FINISHED"
                   /\ fut[caller.ref].result.kind = "value" )
                    => iters'[i].out = Append(iters[i].out, fut[caller.ref].result) ]_vars

\* a sequence has yielded its first element and run out of time on the
\* second, at the deadline fixed by the map call
C17_Witness ==
    \E i \in DOMAIN iters :
        /\ iters[i].timeout # NoTimeout
        /\ iters[i].err = "TimeoutError"
        /\ Len(iters[i].out) = 1
        /\ now = iters[i].end_time

\* iterator i stops in this step before it is fully consumed: on a Timeout,
\* on a task's exception, or dropped by the consumer
Stops(i) ==
    /\ iters[i].st \in {"running", "suspended"}
    /\ \/ iters'[i].st = "closed"
       \/ iters'[i].st = "finished" /\ iters'[i].err # "none"

\* the handles iterator i has not handed a result of: those left in fs and
\* the one the caller is waiting for
Unconsumed(i) ==
    {iters[i].fs[k] : k \in DOMAIN iters[i].fs}
        \cup (IF caller.op \in {"result", "result_timeout"} /\ caller.it = i
              THEN {caller.ref} ELSE {})

\* C18: when a result sequence stops before it is fully consumed, without a
\* pool every handle it has not consumed, the awaited one included, is
\* cancelled if PENDING and left as it is otherwise, so none of them stays
\* PENDING; with a fixed pool no handle changes
C18_CleanupOnStop ==
    [][ \A i \in DOMAIN iters :
          Stops(i) =>
              IF iters[i].pooled
              THEN fut' = fut
              ELSE /\ \A h \in Unconsumed(i) :
                        /\ fut'[h].state = IF fut[h].state = "PENDING" THEN "CANCELLED"
                                           ELSE fut[h].state
                        /\ fut'[h].state # "PENDING"
                   /\ \A h \in DOMAIN fut \ Unconsumed(i) : fut'[h] = fut[h] ]_vars

\* a sequence without a pool has timed out on its first element, and both
\* that handle and the one behind it are cancelled
C18_Witness ==
    \E i \in DOMAIN iters :
        /\ ~iters[i].pooled
        /\ iters[i].err = "TimeoutError"
        /\ iters[i].out = << >>
        /\ Len(iters[i].hs) = 2
        /\ \A k \in DOMAIN iters[i].hs : fut[iters[i].hs[k]].state = "CANCELLED"

\* C19 (as claimed): with a fixed pool and several threads inside submit at
\* once, a thread whose task went to an idle worker receives the handle of
\* its own submission, never that of another thread's
C19_OwnHandleUnderRace ==
    \A h \in DOMAIN fut :
        (max_workers > 0 /\ task[fut[h].sub].st # "queued")
            => fut[h].oref = fut[h].sub

\* handles a+1 .. b, in the order they were issued
Issued(a, b) == [k \in 1..(b - a) |-> a + k]

\* C20 (as claimed): the outstanding list holds, in order and once each, the
\* handles issued by the successful submit calls (map's included) since
\* construction or the last shutdown call: a submit or map step appends its
\* new handles, a failed one appends nothing, no other step outside shutdown
\* touches the list, and a shutdown call that is over has emptied it
C20_ListIsOutstandingHandles ==
    [][ /\ futures' = Issued(Len(fut') - Len(futures'), Len(fut'))
        /\ (SubmitCall \/ MapCall) => futures' = futures \o Issued(Len(fut), Len(fut'))
        /\ ~(SubmitCall \/ MapCall \/ ShutdownStep) => futures' = futures
        /\ (ShutdownStep /\ caller'.op = "idle") => futures' = << >> ]_vars

\* the actors the pool holds as busy
BusyActors == {pool.future_to_actor[o].actor : o \in DOMAIN pool.future_to_actor}

\* the actors the pool holds as idle
IdleActors == {pool.idle_actors[k] : k \in DOMAIN pool.idle_actors}

\* the tasks handed to a worker and not finished
Undone == {s \in DOMAIN task : task[s].st = "dispatched"}

\* the tasks the pool holds a worker for
Held == DOMAIN pool.future_to_actor

\* the task a get_next without timeout is waiting for: the pool has handed
\* its worker back already
Awaited == IF caller.op = "ray_get" THEN {caller.ref} ELSE {}

\* the round task s runs in: its place among the tasks of its actor
Round(s) == Cardinality({s2 \in 1..s : task[s2].actor = task[s].actor})

\* ceil(n / k)
CeilDiv(n, k) == (n + k - 1) \div k

\* the pool of an executor built with max_workers = K >= 1 has exactly K
\* workers, all idle until the first submission, each idle or held for one
\* task; a submission waits in the queue only while no worker is idle, and the
\* queue is served first in, first out; so the tasks of one map call,
\* consumed, run in rounds of K, task s in round ceil(s / K)
PoolOfK ==
    /\ IdleActors \cup BusyActors = 1..max_workers
    /\ IdleActors \cap BusyActors = {}
    /\ Len(pool.idle_actors) + Cardinality(Held) = max_workers
    /\ task = << >> => Len(pool.idle_actors) = max_workers
    /\ pool.pending_submits # << >> => pool.idle_actors = << >>
    /\ \A k \in 1..(Len(pool.pending_submits) - 1) :
          pool.pending_submits[k] < pool.pending_submits[k + 1]
    /\ \A k \in DOMAIN pool.pending_submits, s \in DOMAIN task :
          task[s].st # "queued" => s < pool.pending_submits[k]
    /\ \A o1 \in Held, o2 \in Held :
          o1 < o2 => pool.future_to_actor[o1].index < pool.future_to_actor[o2].index
    /\ \A i \in DOMAIN iters :
          (iters[i].pooled /\ Alone(i)) =>
              /\ \A s \in DOMAIN task :
                    task[s].actor # 0 => Round(s) = CeilDiv(s, max_workers)
              /\ (iters[i].st = "finished" /\ iters[i].err = "none")
                    => \A s \in DOMAIN task :
                          /\ task[s].st = "done"
                          /\ Round(s) <= CeilDiv(Len(task), max_workers)

\* C21 (as claimed): the pool is a fixed pool of K workers served first in,
\* first out, every worker has at most one unfinished task, and at most K
\* tasks are dispatched and unfinished at any time
C21_AtMostKDispatched ==
    max_workers >= 1 =>
        /\ PoolOfK
        /\ Cardinality(Undone) <= max_workers
        /\ \A a \in 1..max_workers :
              Cardinality({s \in Undone : task[s].actor = a}) <= 1

\* C21 (amended): the pool is a fixed pool of K workers served first in,
\* first out, and it holds a worker for at most K tasks, one each; every
\* unfinished dispatched task is one of those or the task a get_next without
\* timeout is waiting for, whose worker was handed back, and given the next
\* queued task, before it finished: so at most K + 1 tasks are dispatched
\* and unfinished, and a worker has at most two of them, two only when the
\* awaited one is among them
C21_FixedPoolOfK ==
    max_workers >= 1 =>
        /\ PoolOfK
        /\ Cardinality(Held) <= max_workers
        /\ \A o1 \in Held, o2 \in Held :
              pool.future_to_actor[o1].actor = pool.future_to_actor[o2].actor => o1 = o2
        /\ Undone \subseteq Held \cup Awaited
        /\ Cardinality(Undone) <= max_workers + 1
        /\ \A a \in 1..max_workers :
              LET on == {s \in Undone : task[s].actor = a}
              IN /\ Cardinality(on) <= 2
                 /\ Cardinality(on) = 2 => Awaited \subseteq on /\ Awaited # {}

\* three equal tasks are mapped over two workers; the consumer waits for the
\* first, whose worker already has the third, in a second round: three
\* tasks are dispatched and unfinished
C21_Witness ==
    \E i \in DOMAIN iters :
        /\ iters[i].pooled /\ Alone(i)
        /\ max_workers = 2
        /\ Len(task) = 3
        /\ caller.op = "ray_get"
        /\ Undone = {1, 2, 3}
        /\ task[3].actor = task[caller.ref].actor
        /\ Round(3) = 2

\* C22: in no step does a handle go from RUNNING or FINISHED to CANCELLED: a
\* handle that becomes CANCELLED was PENDING, a RUNNING handle stays RUNNING
\* or finishes, and a FINISHED or CANCELLED handle never changes again;
\* through shutdown's cancel loop and the cleanup of result sequences alike
C22_CancelOnlyFromPending ==
    [][ \A h \in DOMAIN fut :
          /\ (fut'[h].state = "CANCELLED" /\ fut[h].state # "CANCELLED")
                => fut[h].state = "PENDING"
          /\ fut[h].state = "RUNNING" => fut'[h].state \in {"RUNNING", "FINISHED"}
          /\ fut[h].state \in Terminal => fut'[h] = fut[h] ]_vars

\* shutdown's cancel loop has gone over a running handle and a pending one:
\* the first still runs, the second is cancelled
C22_Witness ==
    /\ caller.cancel
    /\ caller.op \in {"wait", "ray_shutdown"}
    /\ \E k \in DOMAIN futures : fut[futures[k]].state = "RUNNING"
    /\ \E k \in DOMAIN futures : fut[futures[k]].state = "CANCELLED"

\* C23 (as claimed): a task body that raises never makes submit or map
\* raise; the exception is kept in the handle of that task, which resolves
\* to it, and no handle of another task shows it; a result sequence raises
\* it on reaching that element, after yielding the results before it
C23_TaskFailureDeferred ==
    [][ /\ (SubmitCall \/ MapCall) => ret' \in {"ok", "RuntimeError"}
        /\ \A h \in DOMAIN fut' :
              fut'[h].state = "FINISHED"
                  => (fut'[h].result.kind = "ZeroDivisionError"
                          <=> Apply(task'[fut'[h].sub].fn, task'[fut'[h].sub].args).kind
                                 = "ZeroDivisionError")
        /\ \A i \in DOMAIN iters' :
              (iters'[i].err = "ZeroDivisionError" /\ (iters'[i].pooled => Alone(i)'))
                  => LikeBuiltinMap(i)' ]_vars

====
